---- MODULE Spec2Model ----
(***************************************************************************)
(* A model of makeapi.py: the node and rule data model, the persisted      *)
(* state database, the modify-rule state machine, BuildSystem construction *)
(* with its static checks, and the DAG traversal behind build/clean/dag.   *)
(*                                                                         *)
(* One record, the "machine" m, holds everything an operation of the       *)
(* program can read or write: the file system, the clock that stamps file  *)
(* writes, the in-memory DATABASE singleton, the atexit registration, the  *)
(* persisted database file, and the bookkeeping of one call (the callback  *)
(* events, the raised error).  Operations are operators from machine to    *)
(* machine, written statement by statement after the Python source; an      *)
(* exception is the field err, and every statement after a raise is        *)
(* skipped.                                                                *)
(*                                                                         *)
(* Modelling decisions:                                                    *)
(*  - the mtime of a write is the clock of the file system, which has     *)
(*    moved on since the write before or has not: two writes that follow   *)
(*    each other may share a timestamp, and which of them do is chosen     *)
(*    freely for every call;                                               *)
(*  - a file's content is the sequence of modification keys that were      *)
(*    applied to it, so applying a modification twice is visible;          *)
(*  - md5 is collision-free: the digest of a content is the content,       *)
(*    tagged;                                                              *)
(*  - the database dictionaries "clone_paths" and "modified_hashes" are    *)
(*    created empty on first access by the source; an absent dictionary    *)
(*    and an empty one are not distinguished here, as no reader in the     *)
(*    source distinguishes them.                                           *)
(***************************************************************************)
EXTENDS Integers, Sequences, FiniteSets, TLC

VARIABLES
    fs,          \* the file system: path -> [content, mtime], existing files only
    clock,       \* the time of the latest file write
    DATABASE,    \* the module global DATABASE: [is_none, data]
    atexit,      \* whether Database.sync is registered to run at exit
    dbfile,      \* makeapi_database.json: [exists, data]
    rules_in,    \* the rule list the BuildSystem is constructed from
    bs,          \* the BuildSystem object: [made, error, rules, nodes, ...]
    last,        \* the latest call: what was called and what it did
    prev         \* the call before the latest

vars == <<fs, clock, DATABASE, atexit, dbfile, rules_in, bs, last, prev>>

(***************************************************************************)
(* Bounds                                                                  *)
(***************************************************************************)
MaxEdges == 4       \* most dependencies, in all, of an enumerated rule graph
MaxStarts == 2      \* longest explicit starting_nodes list
MaxCalls == 4       \* calls made in one behaviour of the other specifications
MaxTime == 3        \* largest timestamp of the up-to-date specification
MaxRules == 3       \* longest rule list of the construction specification
MaxBuilds == 2      \* calls made in one behaviour of the build specification

None == "None"
NoTime == -1        \* get_time() returning None
EmptyMap == [k \in {} |-> ""]
EmptyData == [clone_paths |-> EmptyMap, modified_hashes |-> EmptyMap]

(***************************************************************************)
(* Nodes                                                                   *)
(***************************************************************************)
StaticFileNode(path) == [cls |-> "StaticFileNode", path |-> path]
CreatedFileNode(path) == [cls |-> "CreatedFileNode", path |-> path]
FileModificationNode(modified_file, modification_key) ==
    [cls |-> "FileModificationNode", modified_file |-> modified_file,
     modification_key |-> modification_key]

IsStaticNode(n) == n.cls = "StaticFileNode"
IsDynamicNode(n) == n.cls \in {"CreatedFileNode", "FileModificationNode"}
IsModNode(n) == n.cls = "FileModificationNode"

get_id(n) ==
    IF IsModNode(n)
    THEN n.modified_file.path \o "_" \o n.modification_key
    ELSE n.path

(***************************************************************************)
(* The machine: the program's state as one record, threaded through the    *)
(* operations of one call.  fail is the set of rule targets whose shell    *)
(* command fails (exits non-zero without effect) during the call.  writes  *)
(* counts the file writes of the call, and same_time is the set of those   *)
(* writes, by their number, that the file system stamps with the time of   *)
(* the write before: the mtime of a write is the clock of the file system, *)
(* which may or may not have moved on since the last write.                *)
(***************************************************************************)
Machine(fail) ==
    [fs |-> fs, clock |-> clock, DATABASE |-> DATABASE, atexit |-> atexit,
     dbfile |-> dbfile, fail |-> fail, same_time |-> {}, writes |-> 0,
     err |-> "none", named |-> {}, at |-> None, dep |-> None,
     traversed |-> {}, events |-> <<>>, depth |-> 0, out |-> <<>>]

\* The machine of a call whose writes numbered in same_time find the clock
\* where the write before left it.
Timed(m, same_time) == [m EXCEPT !.same_time = same_time]

\* The timings of a call that makes at most n writes: any of its writes may
\* fall into the same tick of the clock as the write before.
Timings(n) == SUBSET (1..n)

\* Every timing that is chosen is the timing of a write the call made.
TimingUsed(m) == m.same_time \subseteq 1..m.writes

Raise(m, e) == [m EXCEPT !.err = e]
Raised(m) == m.err # "none"

\* A function returning a value: the machine after the call, and the value.
Ret(m, v) == [m |-> m, v |-> v]

\* The one element of a singleton set: Only({e : v \in {d}}) is e with v bound
\* to the value of d, which is computed once.
Only(S) == CHOOSE e \in S : TRUE

Without(f, k) == [j \in DOMAIN f \ {k} |-> f[j]]
With(f, k, v) == [j \in DOMAIN f \cup {k} |-> IF j = k THEN v ELSE f[j]]

(***************************************************************************)
(* The file system surface                                                 *)
(***************************************************************************)
path_exists(m, p) == p \in DOMAIN m.fs
getmtime(m, p) == m.fs[p].mtime
read(m, p) == m.fs[p].content

\* The time a write is stamped with: the time of the write before, or later.
now(m) == IF m.writes + 1 \in m.same_time THEN m.clock ELSE m.clock + 1

\* Writing a file stamps it with the current time.
write_file(m, p, content) ==
    Only({[m EXCEPT !.clock = t, !.writes = m.writes + 1,
                    !.fs = With(m.fs, p, [content |-> content, mtime |-> t])]
          : t \in {now(m)}})

\* shutil.copy: the content is copied, the copy's mtime is the time of copying,
\* which may be the time of the write before.
shutil_copy(m, src, dst) == write_file(m, dst, read(m, src))

\* shutil.move within a directory is a rename: content and mtime move along.
shutil_move(m, src, dst) ==
    [m EXCEPT !.fs = Without(With(m.fs, dst, m.fs[src]), src)]

os_remove(m, p) == [m EXCEPT !.fs = Without(m.fs, p)]

get_md5sum(m, p) == <<"md5", read(m, p)>>
filecmp_cmp(m, p, q) == read(m, p) = read(m, q)

(***************************************************************************)
(* Database                                                                *)
(***************************************************************************)
Database_init(m) ==
    [m EXCEPT !.DATABASE = [is_none |-> FALSE,
                            data |-> IF m.dbfile.exists THEN m.dbfile.data
                                     ELSE EmptyData],
              !.atexit = TRUE]

Database_sync(m) ==
    [m EXCEPT !.dbfile = [exists |-> TRUE, data |-> m.DATABASE.data]]

Database_clean(m) ==
    [m EXCEPT !.dbfile = [exists |-> FALSE, data |-> EmptyData],
              !.atexit = FALSE]

get_db(m) == IF m.DATABASE.is_none THEN Database_init(m) ELSE m

(***************************************************************************)
(* FileNode, FileModificationNode, CreatedFileNode, StaticFileNode         *)
(***************************************************************************)
FileNode_get_time(n, m) ==
    Ret(m, IF path_exists(m, n.path) THEN getmtime(m, n.path) ELSE NoTime)

\* _get_clone_paths: the dictionary, after the database is loaded.
_get_clone_paths(m) ==
    Only({Ret(d, d.DATABASE.data.clone_paths) : d \in {get_db(m)}})

get_clone_file_path(n, m) ==
    Only({IF n.modified_file.path \notin DOMAIN r.v THEN Ret(r.m, None)
          ELSE IF ~path_exists(r.m, r.v[n.modified_file.path])
               THEN Ret(Raise(r.m, "AssertionError"), None)
               ELSE Ret(r.m, r.v[n.modified_file.path])
          : r \in {_get_clone_paths(m)}})

FileModificationNode_get_time(n, m) ==
    Only({IF Raised(r.m) \/ r.v = None THEN Ret(r.m, NoTime)
          ELSE Ret(r.m, IF path_exists(r.m, r.v) THEN getmtime(r.m, r.v)
                        ELSE NoTime)
          : r \in {get_clone_file_path(n, m)}})

get_time(n, m) ==
    IF IsModNode(n) THEN FileModificationNode_get_time(n, m)
    ELSE FileNode_get_time(n, m)

\* del clone_paths[self.modified_file.get_id()]
del_clone_path(n, m) ==
    [m EXCEPT !.DATABASE.data.clone_paths = Without(@, n.modified_file.path)]

\* Mutant: the clone is forgotten without being moved back.
FileModificationNode_clean_unregister_only(n, m) ==
    Only({IF Raised(r.m) \/ r.v = None THEN r.m
          ELSE del_clone_path(n, r.m)
          : r \in {get_clone_file_path(n, m)}})

\* Mutant: no early return when no clone is registered, so that
\* shutil.move is handed None.
FileModificationNode_clean_unguarded(n, m) ==
    Only({IF Raised(r.m) THEN r.m
          ELSE IF r.v = None THEN Raise(r.m, "TypeError")
          ELSE del_clone_path(n, shutil_move(r.m, r.v, n.modified_file.path))
          : r \in {get_clone_file_path(n, m)}})

FileModificationNode_clean(n, m) ==
    Only({IF Raised(r.m) \/ r.v = None THEN r.m
          ELSE del_clone_path(n, shutil_move(r.m, r.v, n.modified_file.path))
          : r \in {get_clone_file_path(n, m)}})

\* os.path.split: the path up to its last slash, without trailing slashes
\* unless it is made of slashes only, and what follows the last slash.
rfind_slash(p) ==
    IF \E i \in 1..Len(p) : SubSeq(p, i, i) = "/"
    THEN CHOOSE i \in 1..Len(p) :
             /\ SubSeq(p, i, i) = "/"
             /\ \A j \in (i + 1)..Len(p) : SubSeq(p, j, j) # "/"
    ELSE 0

RECURSIVE rstrip_slash(_)
rstrip_slash(h) ==
    IF Len(h) > 0 /\ SubSeq(h, Len(h), Len(h)) = "/"
    THEN rstrip_slash(SubSeq(h, 1, Len(h) - 1))
    ELSE h

split_at(p, i) ==
    Only({<<IF \A j \in 1..Len(head) : SubSeq(head, j, j) = "/" THEN head
            ELSE rstrip_slash(head),
            SubSeq(p, i + 1, Len(p))>>
          : head \in {SubSeq(p, 1, i)}})

os_path_split(p) == split_at(p, rfind_slash(p))

\* os.path.join of two parts, the second not starting with a slash.
os_path_join(a, b) ==
    IF Len(a) = 0 \/ SubSeq(a, Len(a), Len(a)) = "/" THEN a \o b
    ELSE a \o "/" \o b

\* dirname, basename = os.path.split(path);
\* os.path.join(dirname, f"__clone__{basename}")
new_clone_path(n) ==
    Only({os_path_join(parts[1], "__clone__" \o parts[2])
          : parts \in {os_path_split(n.modified_file.path)}})

\* clone_paths[self.modified_file.get_id()] = new_clone_path
set_clone_path(n, m) ==
    [m EXCEPT !.DATABASE.data.clone_paths =
                  With(@, n.modified_file.path, new_clone_path(n))]

create_clone_file(n, m) ==
    Only({IF n.modified_file.path \in DOMAIN r.v THEN Raise(r.m, "AssertionError")
          ELSE set_clone_path(n, shutil_copy(r.m, n.modified_file.path,
                                             new_clone_path(n)))
          : r \in {_get_clone_paths(m)}})

CreatedFileNode_clean(n, m) ==
    IF path_exists(m, n.path) THEN os_remove(m, n.path) ELSE m

DynamicNode_clean(n, m) ==
    IF IsModNode(n) THEN FileModificationNode_clean(n, m)
    ELSE CreatedFileNode_clean(n, m)

\* StaticNode.verify_exists with StaticFileNode._check_exists.
verify_exists(n, m) ==
    IF ~path_exists(m, n.path) THEN Raise(m, "StaticNodeMissing") ELSE m

(***************************************************************************)
(* Rules                                                                   *)
(***************************************************************************)
ShellRule(target, deps) ==
    [cls |-> "ShellRule", target |-> target, depends_on |-> deps]
ShellFileModifyRule(target, deps) ==
    [cls |-> "ShellFileModifyRule", target |-> target, depends_on |-> deps]

Emit(m, kind, id) == [m EXCEPT !.events = Append(@, <<kind, id>>)]

\* [dep.get_time() for dep in self.depends_on], from the i-th dependency on.
RECURSIVE dep_times(_, _, _)
dep_times(deps, i, m) ==
    IF i > Len(deps) \/ Raised(m) THEN Ret(m, <<>>)
    ELSE Only({Only({Ret(rest.m, <<r.v>> \o rest.v)
                     : rest \in {dep_times(deps, i + 1, r.m)}})
               : r \in {get_time(deps[i], m)}})

isinstance_float(t) == t # NoTime

\* Mutant: a dependency with no timestamp passes the comparison.
all_earlier_or_missing(times, res) ==
    \A i \in 1..Len(times) : ~isinstance_float(times[i]) \/ times[i] < res

\* Mutant: a dependency as late as the target passes the comparison.
all_not_later(times, res) ==
    \A i \in 1..Len(times) : isinstance_float(times[i]) /\ times[i] <= res

\* all([isinstance(t, float) and t < res for t in dep_times])
all_earlier(times, res) ==
    \A i \in 1..Len(times) : isinstance_float(times[i]) /\ times[i] < res

is_up_to_date(rule, m) ==
    Only({IF Raised(r.m) \/ r.v = NoTime THEN Ret(r.m, FALSE)
          ELSE Only({Ret(d.m, all_earlier(d.v, r.v))
                     : d \in {dep_times(rule.depends_on, 1, r.m)}})
          : r \in {get_time(rule.target, m)}})

_get_modified_hashes(m) ==
    Only({Ret(d, d.DATABASE.data.modified_hashes) : d \in {get_db(m)}})

\* The end of _get_build_state, once the saved hash is known to differ.
clean_or_dirty(rule, m) ==
    Only({IF Raised(c.m) THEN Ret(c.m, None)
          ELSE IF c.v = None
                  \/ filecmp_cmp(c.m, rule.target.modified_file.path, c.v)
               THEN Ret(c.m, "CLEAN")
               ELSE Ret(c.m, "DIRTY")
          : c \in {get_clone_file_path(rule.target, m)}})

_get_build_state(rule, m) ==
    IF ~path_exists(m, rule.target.modified_file.path)
    THEN Ret(Raise(m, "FileNotFoundError"), None)
    ELSE Only({IF get_id(rule.target) \notin DOMAIN h.v THEN Ret(h.m, "CLEAN")
               ELSE IF get_md5sum(h.m, rule.target.modified_file.path)
                          = h.v[get_id(rule.target)]
                    THEN Ret(h.m, "BUILT")
                    ELSE clean_or_dirty(rule, h.m)
               : h \in {_get_modified_hashes(m)}})

\* ShellFileModifyRule._file_modification: os.system(modification_cmd), its
\* exit status unchecked.  The command appends to the modified file.
_file_modification(rule, m) ==
    IF get_id(rule.target) \in m.fail
    THEN Emit(m, "modification", get_id(rule.target))
    ELSE write_file(Emit(m, "modification", get_id(rule.target)),
                    rule.target.modified_file.path,
                    Append(read(m, rule.target.modified_file.path),
                           rule.target.modification_key))

\* modified_hashes[self.target.get_id()] = get_md5sum(...)
set_modified_hash(rule, m) ==
    Only({[h.m EXCEPT !.DATABASE.data.modified_hashes =
               With(@, get_id(rule.target),
                    get_md5sum(h.m, rule.target.modified_file.path))]
          : h \in {_get_modified_hashes(m)}})

\* if self.target.get_clone_file_path() is None: self.target.create_clone_file()
clone_if_absent(rule, m) ==
    Only({IF Raised(c.m) THEN c.m
          ELSE IF c.v = None THEN create_clone_file(rule.target, c.m)
          ELSE c.m
          : c \in {get_clone_file_path(rule.target, m)}})

_do_modification(rule, m) ==
    Only({IF Raised(s.m) THEN s.m
          ELSE IF s.v # "CLEAN" THEN Raise(s.m, "AssertionError")
          ELSE Only({IF Raised(m1) THEN m1
                     ELSE set_modified_hash(rule, _file_modification(rule, m1))
                     : m1 \in {clone_if_absent(rule, s.m)}})
          : s \in {_get_build_state(rule, m)}})

\* Mutant: a BUILT target is cleaned and modified again, like a DIRTY one.
ModifyRule_execute_rebuilds(rule, m) ==
    Only({IF Raised(s.m) THEN s.m
          ELSE IF s.v \in {"DIRTY", "BUILT"}
               THEN Only({IF Raised(m1) THEN m1 ELSE _do_modification(rule, m1)
                          : m1 \in {FileModificationNode_clean(rule.target, s.m)}})
               ELSE _do_modification(rule, s.m)
          : s \in {_get_build_state(rule, m)}})

ModifyRule_execute(rule, m) ==
    Only({IF Raised(s.m) \/ s.v = "BUILT" THEN s.m
          ELSE IF s.v = "DIRTY"
               THEN Only({IF Raised(m1) THEN m1 ELSE _do_modification(rule, m1)
                          : m1 \in {FileModificationNode_clean(rule.target, s.m)}})
               ELSE _do_modification(rule, s.m)
          : s \in {_get_build_state(rule, m)}})

\* Mutant: the exit status of the command is not looked at.
ShellRule_execute_unchecked(rule, m) ==
    IF get_id(rule.target) \in m.fail THEN m
    ELSE write_file(m, rule.target.path, <<"out">>)

\* ShellRule.execute: os.system(cmd); a command that succeeds writes its target.
ShellRule_execute(rule, m) ==
    IF get_id(rule.target) \in m.fail THEN Raise(m, "CommandFailed")
    ELSE write_file(m, rule.target.path, <<"out">>)

execute(rule, m) ==
    IF rule.cls = "ShellFileModifyRule"
    THEN ModifyRule_execute(rule, Emit(m, "execute", get_id(rule.target)))
    ELSE ShellRule_execute(rule, Emit(m, "execute", get_id(rule.target)))

(***************************************************************************)
(* BuildSystem                                                             *)
(***************************************************************************)
NoneNode == [cls |-> "None"]
IsNone(n) == n.cls = "None"

NodeIds(nodes) == {get_id(nodes[i]) : i \in 1..Len(nodes)}

\* for node in [r.target] + r.depends_on: the first node of an id is kept.
RECURSIVE add_nodes(_, _, _)
add_nodes(ns, i, b) ==
    IF i > Len(ns) THEN b
    ELSE add_nodes(ns, i + 1,
             IF get_id(ns[i]) \notin NodeIds(b.nodes)
             THEN [b EXCEPT !.nodes = Append(@, ns[i]),
                            !.node_requesters = With(@, get_id(ns[i]), <<>>)]
             ELSE b)

\* self.rules[tgt_id] = r
set_rule(b, r) == [b EXCEPT !.rules = With(@, get_id(r.target), r)]

\* Mutant: a second rule for a target replaces the first.
RECURSIVE add_rules_last_wins(_, _, _)
add_rules_last_wins(rules, i, b) ==
    IF i > Len(rules) \/ b.error # "none" THEN b
    ELSE add_rules_last_wins(rules, i + 1,
             add_nodes(<<rules[i].target>> \o rules[i].depends_on, 1,
                       set_rule(b, rules[i])))

\* The first loop of __init__, from the i-th rule on.
RECURSIVE add_rules(_, _, _)
add_rules(rules, i, b) ==
    IF i > Len(rules) \/ b.error # "none" THEN b
    ELSE IF get_id(rules[i].target) \in DOMAIN b.rules
         THEN [b EXCEPT !.error = "DuplicateTarget"]
         ELSE add_rules(rules, i + 1,
                  add_nodes(<<rules[i].target>> \o rules[i].depends_on, 1,
                            set_rule(b, rules[i])))

\* The second loop of __init__: every dependency of the i-th rule, from the
\* j-th on, gets the rule's target as a requester.
RECURSIVE fill_requesters(_, _, _, _)
fill_requesters(rules, i, j, b) ==
    IF i > Len(rules) THEN b
    ELSE IF j > Len(rules[i].depends_on) THEN fill_requesters(rules, i + 1, 1, b)
    ELSE fill_requesters(rules, i, j + 1,
             [b EXCEPT !.node_requesters[get_id(rules[i].depends_on[j])] =
                           Append(@, get_id(rules[i].target))])

_find_rule(b, target, m) ==
    IF get_id(target) \notin DOMAIN b.rules THEN Ret(Raise(m, "NoRule"), None)
    ELSE Ret(m, b.rules[get_id(target)])

_all_or_one(b, target) == IF IsNone(target) THEN b.nodes ELSE <<target>>

\* Mutant: the rule is executed whether it is up to date or not.
execute_always(rule, m) ==
    Only({IF Raised(u.m) THEN u.m ELSE execute(rule, u.m)
          : u \in {is_up_to_date(rule, m)}})

\* if not rule.is_up_to_date(): rule.execute()
execute_if_stale(rule, m) ==
    Only({IF Raised(u.m) \/ u.v THEN u.m ELSE execute(rule, u.m)
          : u \in {is_up_to_date(rule, m)}})

\* The callbacks of build, clean and dag; "none" is the default lambda.
execute_rule(b, node, m) ==
    IF ~IsDynamicNode(node) THEN m
    ELSE Only({IF Raised(r.m) THEN r.m
               ELSE execute_if_stale(r.v, Emit(r.m, "check", get_id(node)))
               : r \in {_find_rule(b, node, m)}})

clean_node(b, node, m) ==
    IF IsDynamicNode(node) THEN DynamicNode_clean(node, m) ELSE m

preorder_action(cb, b, node, m) ==
    IF cb = "dag"
    THEN [m EXCEPT !.events = Append(@, <<"pre", get_id(node)>>),
                   !.out = Append(@, [id |-> get_id(node), depth |-> m.depth]),
                   !.depth = @ + 1]
    ELSE Emit(m, "pre", get_id(node))

postorder_action(cb, b, node, m) ==
    CASE cb = "build" -> execute_rule(b, node, Emit(m, "post", get_id(node)))
      [] cb = "clean" -> clean_node(b, node, Emit(m, "post", get_id(node)))
      [] cb = "dag" -> [m EXCEPT !.events = Append(@, <<"post", get_id(node)>>),
                                 !.depth = @ - 1]
      [] OTHER -> Emit(m, "post", get_id(node))

RECURSIVE _traverse_dag_aux(_, _, _, _, _)
RECURSIVE _traverse_deps(_, _, _, _, _, _)

\* raise RuntimeError("Found a circular dependency chain: " + ...)
raise_circular(target, dep_id, node_stack, m) ==
    [m EXCEPT !.err = "CircularDependency",
              !.named = node_stack \cup {dep_id},
              !.at = get_id(target), !.dep = dep_id]

\* for dep in rule.depends_on, from the i-th dependency on; m is a value.
_traverse_deps(b, target, i, node_stack, m, cb) ==
    IF i > Len(b.rules[get_id(target)].depends_on) \/ Raised(m) THEN m
    ELSE IF get_id(b.rules[get_id(target)].depends_on[i]) \in node_stack
    THEN raise_circular(target, get_id(b.rules[get_id(target)].depends_on[i]),
                        node_stack, m)
    ELSE IF get_id(b.rules[get_id(target)].depends_on[i]) \notin m.traversed
    THEN Only({_traverse_deps(b, target, i + 1, node_stack, m1, cb)
               : m1 \in {_traverse_dag_aux(b,
                             b.rules[get_id(target)].depends_on[i],
                             node_stack \cup {get_id(target)}, m, cb)}})
    ELSE _traverse_deps(b, target, i + 1, node_stack, m, cb)

\* The dependencies of a dynamic target, after its preorder action.
expand(b, target, node_stack, m, cb) ==
    IF Raised(m) \/ ~IsDynamicNode(target) THEN m
    ELSE Only({IF Raised(r.m) THEN r.m
               ELSE _traverse_deps(b, target, 1, node_stack, r.m, cb)
               : r \in {_find_rule(b, target, m)}})

\* Mutant: the postorder action runs before the dependencies are expanded.
_traverse_dag_aux_post_first(b, target, node_stack, m, cb) ==
    Only({IF Raised(m2) THEN m2 ELSE expand(b, target, node_stack, m2, cb)
          : m2 \in {postorder_action(cb, b, target,
                        preorder_action(cb, b, target,
                            [m EXCEPT !.traversed = @ \cup {get_id(target)}]))}})

_traverse_dag_aux(b, target, node_stack, m, cb) ==
    Only({IF Raised(m3) THEN m3 ELSE postorder_action(cb, b, target, m3)
          : m3 \in {expand(b, target, node_stack,
                           preorder_action(cb, b, target,
                               [m EXCEPT !.traversed = @ \cup {get_id(target)}]),
                           cb)}})

\* Mutant: a start node is traversed although it was traversed already.
RECURSIVE traverse_starts_again(_, _, _, _, _)
traverse_starts_again(b, starting_nodes, i, m, cb) ==
    IF i > Len(starting_nodes) \/ Raised(m) THEN m
    ELSE Only({traverse_starts_again(b, starting_nodes, i + 1, m1, cb)
               : m1 \in {_traverse_dag_aux(b, starting_nodes[i], {}, m, cb)}})

\* for start in starting_nodes, from the i-th start on.
RECURSIVE traverse_starts(_, _, _, _, _)
traverse_starts(b, starting_nodes, i, m, cb) ==
    IF i > Len(starting_nodes) \/ Raised(m) THEN m
    ELSE IF get_id(starting_nodes[i]) \notin m.traversed
    THEN Only({traverse_starts(b, starting_nodes, i + 1, m1, cb)
               : m1 \in {_traverse_dag_aux(b, starting_nodes[i], {}, m, cb)}})
    ELSE traverse_starts(b, starting_nodes, i + 1, m, cb)

\* The returned set is the field traversed of the machine after the call.
traverse_dag(b, starting_nodes, m, cb) ==
    traverse_starts(b, starting_nodes, 1, [m EXCEPT !.traversed = {}], cb)

\* for node in self.nodes.values(), from the i-th node on: checks 1. and 2.
RECURSIVE check_nodes(_, _, _)
check_nodes(b, i, m) ==
    IF i > Len(b.nodes) \/ Raised(m) THEN m
    ELSE IF IsStaticNode(b.nodes[i])
    THEN check_nodes(b, i + 1, verify_exists(b.nodes[i], m))
    ELSE check_nodes(b, i + 1, _find_rule(b, b.nodes[i], m).m)

_run_static_checks(b, m) ==
    Only({IF Raised(m1) THEN m1 ELSE traverse_dag(b, b.nodes, m1, "none")
          : m1 \in {check_nodes(b, 1, m)}})

NotMade ==
    [made |-> FALSE, skip_verification |-> FALSE, error |-> "none",
     rules |-> EmptyMap, nodes |-> <<>>, node_requesters |-> EmptyMap,
     named |-> {}, at |-> None, dep |-> None]

\* The object after the two loops of __init__, then the static checks.
verified(b, skip_verification, m) ==
    IF b.error # "none" \/ skip_verification THEN b
    ELSE Only({[b EXCEPT !.error = m1.err, !.named = m1.named,
                         !.at = m1.at, !.dep = m1.dep]
               : m1 \in {_run_static_checks(b, m)}})

indexed(rules) ==
    Only({IF b1.error # "none" THEN b1 ELSE fill_requesters(rules, 1, 1, b1)
          : b1 \in {add_rules(rules, 1, [NotMade EXCEPT !.made = TRUE])}})

BuildSystem_init(rules, skip_verification, m) ==
    Only({verified([b EXCEPT !.skip_verification = skip_verification],
                   skip_verification, m)
          : b \in {indexed(rules)}})

build(b, target, m) == traverse_dag(b, _all_or_one(b, target), m, "build")

clean(b, target, m) ==
    Only({IF Raised(m1) THEN m1 ELSE Database_clean(get_db(m1))
          : m1 \in {traverse_dag(b, _all_or_one(b, target), m, "clean")}})

dag(b, target, m) == traverse_dag(b, _all_or_one(b, target), m, "dag")

\* The most writes one build from the starting nodes makes: a rule is executed
\* at most once, a ShellRule writes its target, and a modify rule copies the
\* file to its clone and modifies the file.
MostWrites(b, starting_nodes) ==
    Only({Cardinality(ids)
              + Cardinality({id \in ids : b.rules[id].cls = "ShellFileModifyRule"})
          : ids \in {DOMAIN b.rules
                        \cap traverse_dag(b, starting_nodes, Machine({}),
                                          "none").traversed}})

(***************************************************************************)
(* The nodes and rule lists the specifications draw from                   *)
(***************************************************************************)
X == StaticFileNode("x")
O == CreatedFileNode("o")
P == CreatedFileNode("p")
M1 == FileModificationNode(X, "k1")
M2 == FileModificationNode(X, "k2")

RuleFor(target, deps) ==
    IF IsModNode(target) THEN ShellFileModifyRule(target, deps)
    ELSE ShellRule(target, deps)

\* The sequences of distinct elements of S of length at most n.
DistinctSeqs(S, n) ==
    {q \in UNION {[1..k -> S] : k \in 0..n} :
        \A i, j \in 1..Len(q) : i # j => q[i] # q[j]}

\* The rules of the targets in T, in the order of targets, with d's dependencies.
RECURSIVE RuleList(_, _, _)
RuleList(targets, T, d) ==
    IF targets = <<>> THEN <<>>
    ELSE (IF Head(targets) \in T
          THEN <<RuleFor(Head(targets), d[Head(targets)])>> ELSE <<>>)
         \o RuleList(Tail(targets), T, d)

RECURSIVE SumLen(_, _)
SumLen(d, T) ==
    IF T = {} THEN 0
    ELSE LET t == CHOOSE t \in T : TRUE IN Len(d[t]) + SumLen(d, T \ {t})

\* Every rule graph over x (static) and o, p, x_k1 (dynamic): each dynamic
\* node has no rule, or a rule with any list of distinct nodes, the lists
\* holding at most MaxEdges dependencies in all.
TraverseNodes == {X, O, P, M1}
TraverseRuleLists ==
    UNION {{RuleList(<<O, P, M1>>, T, d) :
               d \in {e \in [T -> DistinctSeqs(TraverseNodes,
                                                Cardinality(TraverseNodes))] :
                          SumLen(e, T) <= MaxEdges}} :
           T \in SUBSET {O, P, M1}}

NoCall ==
    [op |-> "none", target |-> NoneNode, starts |-> <<>>, fail |-> {},
     err |-> "none", named |-> {}, at |-> None, dep |-> None,
     traversed |-> {}, events |-> <<>>, out |-> <<>>, ret |-> None]

\* What a call did, as the variable last records it.
Call(op, target, starts, m, ret) ==
    [op |-> op, target |-> target, starts |-> starts, fail |-> m.fail,
     err |-> m.err, named |-> m.named, at |-> m.at, dep |-> m.dep,
     traversed |-> m.traversed, events |-> m.events, out |-> m.out, ret |-> ret]

\* The machine's lasting part becomes the next state.
Commit(m) ==
    /\ fs' = m.fs
    /\ clock' = m.clock
    /\ DATABASE' = m.DATABASE
    /\ atexit' = m.atexit
    /\ dbfile' = m.dbfile

InitialFiles == [p \in {"x"} |-> [content |-> <<>>, mtime |-> 0]]
NoDatabase == [is_none |-> TRUE, data |-> EmptyData]
NoDbFile == [exists |-> FALSE, data |-> EmptyData]

(***************************************************************************)
(* The traversal specification: a BuildSystem is constructed from any rule *)
(* graph, with or without verification, and traverse_dag is called on it   *)
(* with any list of starting nodes.                                        *)
(***************************************************************************)
InitTraverse ==
    /\ fs = InitialFiles
    /\ clock = 0
    /\ DATABASE = NoDatabase
    /\ atexit = FALSE
    /\ dbfile = NoDbFile
    /\ rules_in \in TraverseRuleLists
    /\ bs = NotMade
    /\ last = NoCall
    /\ prev = NoCall

Construct(skip_verification) ==
    /\ ~bs.made
    /\ bs' = BuildSystem_init(rules_in, skip_verification, Machine({}))
    /\ UNCHANGED <<fs, clock, DATABASE, atexit, dbfile, rules_in, last, prev>>

StartLists(b) ==
    {b.nodes} \cup
    (UNION {[1..k -> {b.nodes[i] : i \in 1..Len(b.nodes)}] : k \in 1..MaxStarts})

CallTraverseDag(starting_nodes) ==
    /\ bs.made /\ bs.error = "none"
    /\ last.op = "none"
    /\ \E m \in {traverse_dag(bs, starting_nodes, Machine({}), "none")} :
           /\ last' = Call("traverse_dag", NoneNode, starting_nodes, m, None)
           /\ Commit(m)
    /\ UNCHANGED <<rules_in, bs, prev>>

Targets(b) == {NoneNode} \cup {b.nodes[i] : i \in 1..Len(b.nodes)}

\* build(target), every command succeeding, its writes timed in any way.
CallBuild(target) ==
    /\ bs.made /\ bs.error = "none"
    /\ last.op = "none"
    /\ IsNone(target) \/ IsDynamicNode(target)
    /\ \E same_time \in Timings(MostWrites(bs, _all_or_one(bs, target))) :
           \E m \in {build(bs, target, Timed(Machine({}), same_time))} :
               /\ TimingUsed(m)
               /\ last' = Call("build", target, _all_or_one(bs, target), m, None)
               /\ Commit(m)
    /\ prev' = last
    /\ UNCHANGED <<rules_in, bs>>

NextTraverse ==
    \/ \E skip \in BOOLEAN : Construct(skip)
    \/ \E starts \in StartLists(bs) : CallTraverseDag(starts)
    \/ \E target \in Targets(bs) : CallBuild(target)

SpecTraverse == InitTraverse /\ [][NextTraverse]_vars

(***************************************************************************)
(* The construction specification: a BuildSystem is constructed, with or   *)
(* without verification, from any list of at most MaxRules rules of a pool *)
(* in which rules share targets and two node objects share an id; the      *)
(* files x and o exist or not.                                             *)
(***************************************************************************)
StaticO == StaticFileNode("o")

ConstructRules ==
    {RuleFor(t, d) : t \in {O, P, M1},
                     d \in {<<>>, <<X>>, <<StaticO>>, <<X, O>>}}

ConstructRuleLists == UNION {[1..k -> ConstructRules] : k \in 0..MaxRules}

ConstructFiles ==
    {[p \in S |-> [content |-> <<>>, mtime |-> 0]] : S \in SUBSET {"x", "o"}}

InitConstruct ==
    /\ fs \in ConstructFiles
    /\ clock = 0
    /\ DATABASE = NoDatabase
    /\ atexit = FALSE
    /\ dbfile = NoDbFile
    /\ rules_in \in ConstructRuleLists
    /\ bs = NotMade
    /\ last = NoCall
    /\ prev = NoCall

NextConstruct == \E skip \in BOOLEAN : Construct(skip)

SpecConstruct == InitConstruct /\ [][NextConstruct]_vars

(***************************************************************************)
(* The dag specification: as the traversal specification, with dag()       *)
(* called on the constructed BuildSystem instead of build().               *)
(***************************************************************************)
CallDag(target) ==
    /\ bs.made /\ bs.error = "none"
    /\ last.op = "none"
    /\ \E m \in {dag(bs, target, Machine({}))} :
           /\ last' = Call("dag", target, _all_or_one(bs, target), m, None)
           /\ Commit(m)
    /\ UNCHANGED <<rules_in, bs, prev>>

NextDag ==
    \/ \E skip \in BOOLEAN : Construct(skip)
    \/ \E starts \in StartLists(bs) : CallTraverseDag(starts)
    \/ \E target \in Targets(bs) : CallDag(target)

SpecDag == InitTraverse /\ [][NextDag]_vars

(***************************************************************************)
(* The up-to-date specification: one rule, its target and dependencies     *)
(* with any timestamps or none; is_up_to_date is called, and a dependency  *)
(* is touched from outside (its timestamp raised) and is_up_to_date called *)
(* again.                                                                  *)
(***************************************************************************)
UpToDateRules ==
    {ShellRule(P, d) : d \in DistinctSeqs({X, O, M1}, 2)}
    \cup {ShellFileModifyRule(M1, d) : d \in DistinctSeqs({X, O}, 2)}

StampedFiles ==
    UNION {[S -> [content : {<<>>}, mtime : 0..MaxTime]] :
           S \in SUBSET {"x", "o", "p", "__clone__x"}}

CloneRegistered ==
    [exists |-> TRUE,
     data |-> [clone_paths |-> [f \in {"x"} |-> "__clone__x"],
               modified_hashes |-> EmptyMap]]

InitUpToDate ==
    /\ fs \in StampedFiles
    /\ clock = MaxTime
    /\ DATABASE = NoDatabase
    /\ atexit = FALSE
    /\ dbfile \in {NoDbFile} \cup
                  (IF "__clone__x" \in DOMAIN fs THEN {CloneRegistered} ELSE {})
    /\ rules_in \in {<<r>> : r \in UpToDateRules}
    /\ bs = NotMade
    /\ last = NoCall
    /\ prev = NoCall

Bool(v) == IF v THEN "True" ELSE "False"

CallIsUpToDate ==
    /\ last.op = "none"
    /\ \E r \in {is_up_to_date(rules_in[1], Machine({}))} :
           /\ last' = Call("is_up_to_date", rules_in[1].target, <<>>, r.m, Bool(r.v))
           /\ Commit(r.m)
    /\ UNCHANGED <<rules_in, bs, prev>>

\* The file whose mtime is the node's timestamp.
StampPath(n) == IF IsModNode(n) THEN new_clone_path(n) ELSE n.path

\* From outside: the i-th dependency, which has a timestamp, gets the later
\* timestamp t; then is_up_to_date is called again.
TouchDependency(i, t) ==
    /\ last.op = "is_up_to_date" /\ last.err = "none"
    /\ i \in 1..Len(rules_in[1].depends_on)
    /\ LET dep == rules_in[1].depends_on[i]
           m0 == Machine({})
       IN  /\ get_time(dep, m0).v # NoTime
           /\ t > get_time(dep, m0).v
           /\ \E r \in {is_up_to_date(rules_in[1],
                            [m0 EXCEPT !.fs[StampPath(dep)].mtime = t])} :
                  /\ last' = Call("touch", dep, <<>>, r.m, Bool(r.v))
                  /\ Commit(r.m)
    /\ prev' = last
    /\ UNCHANGED <<rules_in, bs>>

NextUpToDate ==
    \/ CallIsUpToDate
    \/ \E i \in 1..2, t \in 1..MaxTime : TouchDependency(i, t)

SpecUpToDate == InitUpToDate /\ [][NextUpToDate]_vars

(***************************************************************************)
(* The build specification: a BuildSystem constructed with verification    *)
(* from one of a few rule graphs, on which rules are executed and nodes    *)
(* cleaned directly, build() and clean() are called with any target, and   *)
(* the process exits and is started again; a command of the build may     *)
(* fail.  At most MaxBuilds steps are made.  The variable last holds the   *)
(* latest step with the machine before and after it.                       *)
(***************************************************************************)
\* The graph of poc-example.py (x is modified in place, o is made from x
\* after the modification, p is made from o); two modifications of the same
\* file; a chain of created files; and a modification that depends on the
\* file it modifies.
BuildRuleLists ==
    { <<ShellFileModifyRule(M1, <<>>), ShellRule(O, <<X, M1>>), ShellRule(P, <<O>>)>>,
      <<ShellFileModifyRule(M1, <<>>), ShellFileModifyRule(M2, <<>>),
        ShellRule(P, <<X, M1, M2>>)>>,
      <<ShellRule(O, <<X>>), ShellRule(P, <<O>>)>>,
      <<ShellFileModifyRule(M1, <<X>>)>> }

NoStep == [op |-> "none", target |-> NoneNode, n |-> 0, err |-> "none",
           events |-> <<>>]

Step(op, target, m0, m) ==
    [op |-> op, target |-> target, n |-> last.n + 1, err |-> m.err,
     events |-> m.events, pre |-> m0, post |-> m]

Init ==
    /\ fs = InitialFiles
    /\ clock = 0
    /\ DATABASE = NoDatabase
    /\ atexit = FALSE
    /\ dbfile = NoDbFile
    /\ rules_in \in BuildRuleLists
    /\ bs = BuildSystem_init(rules_in, FALSE, Machine({}))
    /\ last = NoStep
    /\ prev = NoStep

\* The modification nodes that have a rule.
ModTargets(b) ==
    {b.nodes[i] : i \in {j \in 1..Len(b.nodes) :
                             /\ IsModNode(b.nodes[j])
                             /\ get_id(b.nodes[j]) \in DOMAIN b.rules}}

\* The commands that fail during one call: none, or the command of one of
\* the rules the call can reach from its starting nodes.
Failures(b, starting_nodes) ==
    {{}} \cup {{id} : id \in DOMAIN b.rules
                         \cap traverse_dag(b, starting_nodes, Machine({}),
                                           "none").traversed}

\* rule.execute(), called directly on the modify rule of a target: it makes
\* at most two writes, the clone and the modification.
Execute(target, fail) ==
    /\ last.n < MaxCalls
    /\ \E same_time \in Timings(2) :
           \E m0 \in {Timed(Machine(fail), same_time)} :
               \E m \in {execute(bs.rules[get_id(target)], m0)} :
                   /\ TimingUsed(m)
                   /\ last' = Step("execute", target, m0, m)
                   /\ Commit(m)
    /\ prev' = last
    /\ UNCHANGED <<rules_in, bs>>

\* node.clean(), called directly on a modification node.
NodeClean(target) ==
    /\ last.n < MaxCalls
    /\ \E m0 \in {Machine({})} :
           \E m \in {FileModificationNode_clean(target, m0)} :
               /\ last' = Step("node_clean", target, m0, m)
               /\ Commit(m)
    /\ prev' = last
    /\ UNCHANGED <<rules_in, bs>>

Build(target, fail) ==
    /\ last.n < MaxCalls
    /\ IsNone(target) \/ IsDynamicNode(target)
    /\ \E same_time \in Timings(MostWrites(bs, _all_or_one(bs, target))) :
           \E m0 \in {Timed(Machine(fail), same_time)} :
               \E m \in {build(bs, target, m0)} :
                   /\ TimingUsed(m)
                   /\ last' = Step("build", target, m0, m)
                   /\ Commit(m)
    /\ prev' = last
    /\ UNCHANGED <<rules_in, bs>>

Clean(target) ==
    /\ last.n < MaxCalls
    /\ IsNone(target) \/ IsDynamicNode(target)
    /\ \E m0 \in {Machine({})} :
           \E m \in {clean(bs, target, m0)} :
               /\ last' = Step("clean", target, m0, m)
               /\ Commit(m)
    /\ prev' = last
    /\ UNCHANGED <<rules_in, bs>>

\* The interpreter exits: Database.sync runs if it is registered, the module
\* global is gone; the script is started again and constructs its BuildSystem.
Exit ==
    /\ last.n < MaxCalls
    /\ \E m0 \in {Machine({})} :
           \E m \in {[(IF atexit THEN Database_sync(m0) ELSE m0)
                          EXCEPT !.DATABASE = NoDatabase, !.atexit = FALSE]} :
               /\ last' = Step("exit", NoneNode, m0, m)
               /\ Commit(m)
               /\ bs' = BuildSystem_init(rules_in, FALSE, m)
    /\ prev' = last
    /\ UNCHANGED rules_in

Next ==
    \/ /\ last.n < MaxBuilds
       /\ \E target \in ModTargets(bs) :
              \E fail \in {{}, {get_id(target)}} : Execute(target, fail)
    \/ /\ last.n < MaxBuilds
       /\ \E target \in ModTargets(bs) : NodeClean(target)
    \/ /\ last.n < MaxBuilds
       /\ \E target \in Targets(bs) :
              \E fail \in Failures(bs, _all_or_one(bs, target)) :
                  Build(target, fail)
    \/ /\ last.n < MaxBuilds
       /\ \E target \in Targets(bs) : Clean(target)
    \/ last.n < MaxBuilds /\ Exit

Spec == Init /\ [][Next]_vars

(***************************************************************************)
(* The modification specification: the build world without build(): the    *)
(* modify rules are executed and the modification nodes cleaned directly,  *)
(* clean() is called and the process exits and is started again.  At most  *)
(* MaxCalls steps are made.                                                *)
(***************************************************************************)
NextModify ==
    \/ \E target \in ModTargets(bs) :
           \E fail \in {{}, {get_id(target)}} : Execute(target, fail)
    \/ \E target \in ModTargets(bs) : NodeClean(target)
    \/ \E target \in Targets(bs) : Clean(target)
    \/ Exit

SpecModify == Init /\ [][NextModify]_vars

(***************************************************************************)
(* The process specification: the build world restricted to what a script  *)
(* such as poc-example.py does with its BuildSystem: build(), clean() and   *)
(* the end of the process followed by a new start, every command of the     *)
(* rules succeeding.  At most MaxCalls steps are made.                      *)
(***************************************************************************)
NextProcess ==
    \/ \E target \in Targets(bs) : Build(target, {})
    \/ \E target \in Targets(bs) : Clean(target)
    \/ Exit

SpecProcess == Init /\ [][NextProcess]_vars

(***************************************************************************)
(* The scope specification: the process specification on a graph in which  *)
(* a created file, o, does not depend on the modification of x, so that    *)
(* clean(o) leaves the modification outside of what it cleans.             *)
(***************************************************************************)
ScopeRuleLists ==
    { <<ShellFileModifyRule(M1, <<>>), ShellRule(O, <<X>>),
        ShellRule(P, <<O, M1>>)>> }

InitScope ==
    /\ fs = InitialFiles
    /\ clock = 0
    /\ DATABASE = NoDatabase
    /\ atexit = FALSE
    /\ dbfile = NoDbFile
    /\ rules_in \in ScopeRuleLists
    /\ bs = BuildSystem_init(rules_in, FALSE, Machine({}))
    /\ last = NoStep
    /\ prev = NoStep

SpecScope == InitScope /\ [][NextProcess]_vars

(***************************************************************************)
(* The make specification: graphs of created files only, built with        *)
(* build(), every command succeeding; between builds a static source file  *)
(* is touched from outside (its mtime becomes a later time).  At most      *)
(* MaxCalls steps are made.                                                *)
(***************************************************************************)
Y == StaticFileNode("y")
Q == CreatedFileNode("q")

\* a.c -> a.o -> prog, and the same with a second source and object.
MakeRuleLists ==
    { <<ShellRule(O, <<X>>), ShellRule(P, <<O>>)>>,
      <<ShellRule(O, <<X>>), ShellRule(Q, <<Y>>), ShellRule(P, <<O, Q>>)>> }

SourceFiles == [p \in {"x", "y"} |-> [content |-> <<>>, mtime |-> 0]]

InitMake ==
    /\ fs = SourceFiles
    /\ clock = 0
    /\ DATABASE = NoDatabase
    /\ atexit = FALSE
    /\ dbfile = NoDbFile
    /\ rules_in \in MakeRuleLists
    /\ bs = BuildSystem_init(rules_in, FALSE, Machine({}))
    /\ last = NoStep
    /\ prev = NoStep

StaticNodes(b) ==
    {b.nodes[i] : i \in {j \in 1..Len(b.nodes) : IsStaticNode(b.nodes[j])}}

\* touch, from outside and later: the file of a static node gets an mtime
\* later than every mtime there is.
Touch(node) ==
    /\ last.n < MaxCalls
    /\ path_exists(Machine({}), node.path)
    /\ \E m0 \in {Machine({})} :
           \E m \in {[m0 EXCEPT !.clock = m0.clock + 1,
                                !.fs[node.path].mtime = m0.clock + 1]} :
               /\ last' = Step("touch", node, m0, m)
               /\ Commit(m)
    /\ prev' = last
    /\ UNCHANGED <<rules_in, bs>>

NextMake ==
    \/ \E target \in Targets(bs) : Build(target, {})
    \/ \E node \in StaticNodes(bs) : Touch(node)

SpecMake == InitMake /\ [][NextMake]_vars

(***************************************************************************)
(* The dependency relation of a BuildSystem, for stating the properties:   *)
(* defined from the rules alone, not from the traversal.                   *)
(***************************************************************************)
IdsOf(q) == {get_id(q[i]) : i \in 1..Len(q)}
DepIds(b, a) == IF a \in DOMAIN b.rules THEN IdsOf(b.rules[a].depends_on) ELSE {}

\* The ids reachable from the ids in S along zero or more dependencies.
RECURSIVE Reach(_, _)
Reach(b, S) ==
    LET T == S \cup UNION {DepIds(b, a) : a \in S}
    IN  IF T = S THEN S ELSE Reach(b, T)

OnCycle(b, a) == a \in Reach(b, DepIds(b, a))
Acyclic(b) == \A a \in DOMAIN b.rules : ~OnCycle(b, a)

\* Every dynamic node of the graph has a rule.
RulesComplete(b) ==
    \A i \in 1..Len(b.nodes) :
        IsDynamicNode(b.nodes[i]) => get_id(b.nodes[i]) \in DOMAIN b.rules

Count(events, e) == Cardinality({i \in 1..Len(events) : events[i] = e})
Pos(events, e) == CHOOSE i \in 1..Len(events) : events[i] = e
Occurs(events, e) == \E i \in 1..Len(events) : events[i] = e
Before(events, e, f) ==
    /\ Occurs(events, e) /\ Occurs(events, f)
    /\ Pos(events, e) < Pos(events, f)

Traversal(c) == c.op \in {"traverse_dag", "build"}

(***************************************************************************)
(* C1: on an acyclic rule graph, one call of traverse_dag invokes the      *)
(* preorder and the postorder action exactly once for each node reachable  *)
(* from the starting nodes, never for another node, and returns the set of *)
(* the reachable ids.                                                      *)
(***************************************************************************)
C1_EachReachableNodeOnce ==
    (Traversal(last) /\ Acyclic(bs) /\ RulesComplete(bs)) =>
        /\ last.err = "none"
        /\ last.traversed = Reach(bs, IdsOf(last.starts))
        /\ \A id \in NodeIds(bs.nodes) :
               LET n == IF id \in Reach(bs, IdsOf(last.starts)) THEN 1 ELSE 0
               IN  /\ Count(last.events, <<"pre", id>>) = n
                   /\ Count(last.events, <<"post", id>>) = n

\* A start node that is also a dependency of an earlier start node, a node
\* with two dependents in the traversal, and a node that is not reachable.
C1_Witness ==
    /\ last.op = "traverse_dag" /\ Acyclic(bs) /\ RulesComplete(bs)
    /\ Len(last.starts) = 2
    /\ get_id(last.starts[2]) \in DepIds(bs, get_id(last.starts[1]))
    /\ \E a, c \in last.traversed :
           a # c /\ DepIds(bs, a) \cap DepIds(bs, c) # {}
    /\ NodeIds(bs.nodes) \ last.traversed # {}

(***************************************************************************)
(* C2: on an acyclic rule graph, for every dependency edge of the          *)
(* traversal the postorder action of the dependency comes before the       *)
(* postorder action of the dependent node; in build(), a rule is checked   *)
(* (and executed) only after each dynamic dependency of its target was     *)
(* checked, and executed if it was stale.                                  *)
(***************************************************************************)
C2_DependenciesFirst ==
    (Traversal(last) /\ Acyclic(bs) /\ RulesComplete(bs)) =>
        \A a \in last.traversed : \A d \in DepIds(bs, a) :
            /\ Before(last.events, <<"post", d>>, <<"post", a>>)
            /\ (last.op = "build" /\ d \in DOMAIN bs.rules) =>
                   /\ Before(last.events, <<"check", d>>, <<"check", a>>)
                   /\ Occurs(last.events, <<"execute", d>>) =>
                          Before(last.events, <<"execute", d>>, <<"check", a>>)

\* A build in which a stale dependency, reached after its dependent was
\* entered, is executed before the dependent is checked and executed.
C2_Witness ==
    /\ last.op = "build" /\ Acyclic(bs) /\ RulesComplete(bs)
    /\ \E a \in last.traversed : \E d \in DepIds(bs, a) :
           /\ d \in DOMAIN bs.rules
           /\ Before(last.events, <<"pre", a>>, <<"pre", d>>)
           /\ Before(last.events, <<"execute", d>>, <<"execute", a>>)
           /\ \E e \in DepIds(bs, d) : e \in DOMAIN bs.rules

(***************************************************************************)
(* C3: a rule graph with a dependency cycle of any length, a rule whose    *)
(* target is among its own dependencies included, fails construction with  *)
(* verification with the circular-dependency error, and a traverse_dag     *)
(* that starts from a node reaching the cycle raises that error.           *)
(***************************************************************************)
C3_EveryCycleReported ==
    /\ (bs.made /\ ~bs.skip_verification /\ RulesComplete(bs) /\ ~Acyclic(bs)) =>
           bs.error = "CircularDependency"
    /\ (last.op = "traverse_dag" /\ RulesComplete(bs)
            /\ \E a \in Reach(bs, IdsOf(last.starts)) : OnCycle(bs, a)) =>
           last.err = "CircularDependency"

(***************************************************************************)
(* C4: the circular-dependency error names every node of the detected      *)
(* cycle.  The cycle is closed by the dependency edge under inspection     *)
(* when the error is raised, so at least the two ends of that edge (the    *)
(* node being expanded and its dependency found open) are to be named.     *)
(***************************************************************************)
C4_ErrorNamesTheCycle ==
    /\ bs.error = "CircularDependency" => {bs.at, bs.dep} \subseteq bs.named
    /\ last.err = "CircularDependency" => {last.at, last.dep} \subseteq last.named

(***************************************************************************)
(* C5: after a successful build(target), with no change from outside, an   *)
(* immediately following build(target) calls no Rule.execute.  Stated here *)
(* for the verified graphs that are acyclic.                               *)
(***************************************************************************)
C5_SecondBuildExecutesNothing ==
    (/\ last.op = "build" /\ prev.op = "build"
     /\ last.target = prev.target
     /\ prev.err = "none" /\ last.err = "none"
     /\ ~bs.skip_verification /\ Acyclic(bs)) =>
        \A id \in NodeIds(bs.nodes) : ~Occurs(last.events, <<"execute", id>>)

(***************************************************************************)
(* Timestamps as the nodes report them in the current state.               *)
(***************************************************************************)
TimeOf(n) == get_time(n, Machine({})).v
HasTime(n) == TimeOf(n) # NoTime
TheRule == rules_in[1]
Deps(r) == {r.depends_on[i] : i \in 1..Len(r.depends_on)}
Checked == last.op \in {"is_up_to_date", "touch"} /\ last.err = "none"

(***************************************************************************)
(* C6, as claimed: is_up_to_date is true exactly when the target has a     *)
(* timestamp and every dependency has a strictly earlier timestamp or no   *)
(* timestamp at all.                                                       *)
(***************************************************************************)
C6_MissingDependencyCountsAsOlder ==
    Checked =>
        (last.ret = "True" <=>
            /\ HasTime(TheRule.target)
            /\ \A d \in Deps(TheRule) :
                   ~HasTime(d) \/ TimeOf(d) < TimeOf(TheRule.target))

(***************************************************************************)
(* C6, amended: is_up_to_date is true exactly when the target has a        *)
(* timestamp and every dependency has a timestamp, strictly earlier than   *)
(* the target's; a dependency with no timestamp makes the rule not up to   *)
(* date, and so does a target with no timestamp.                           *)
(***************************************************************************)
C6_UpToDateIffAllEarlier ==
    Checked =>
        (last.ret = "True" <=>
            /\ HasTime(TheRule.target)
            /\ \A d \in Deps(TheRule) :
                   HasTime(d) /\ TimeOf(d) < TimeOf(TheRule.target))

\* The target has a timestamp, the only dependency has none: not up to date.
C6_Witness ==
    /\ last.op = "is_up_to_date" /\ last.err = "none"
    /\ HasTime(TheRule.target)
    /\ Len(TheRule.depends_on) = 1 /\ ~HasTime(TheRule.depends_on[1])
    /\ last.ret = "False"

(***************************************************************************)
(* C7: when the target and all dependencies have timestamps, a target      *)
(* later than every dependency is up to date, and once one dependency is    *)
(* raised to the target's timestamp or later the rule is not up to date.   *)
(***************************************************************************)
C7_UpToDateLaw ==
    (Checked /\ HasTime(TheRule.target) /\ \A d \in Deps(TheRule) : HasTime(d)) =>
        /\ (\A d \in Deps(TheRule) : TimeOf(d) < TimeOf(TheRule.target)) =>
               last.ret = "True"
        /\ (last.op = "touch" /\ TimeOf(last.target) >= TimeOf(TheRule.target)) =>
               last.ret = "False"

\* A rule that was up to date, with two dependencies, after one of them was
\* raised to exactly the target's timestamp.
C7_Witness ==
    /\ last.op = "touch" /\ prev.ret = "True" /\ last.ret = "False"
    /\ Len(TheRule.depends_on) = 2
    /\ \A d \in Deps(TheRule) : HasTime(d)
    /\ TimeOf(last.target) = TimeOf(TheRule.target)

(***************************************************************************)
(* The modification state machine as a step of the build specification     *)
(* sees it, in the machine before or after the step.                       *)
(***************************************************************************)
ModStep(c, op) == c.op = op /\ IsModNode(c.target)
FileOf(c) == c.target.modified_file.path
StateAt(c, m) == _get_build_state(bs.rules[get_id(c.target)], m)
InState(c, m, state) == ~Raised(StateAt(c, m).m) /\ StateAt(c, m).v = state
ClonePathsAt(m) == _get_clone_paths(m).v
HashesAt(m) == _get_modified_hashes(m).v
NoCloneAt(c, m) == FileOf(c) \notin DOMAIN ClonePathsAt(m)
Modifications(c) ==
    Cardinality({i \in 1..Len(c.events) : c.events[i][1] = "modification"})
FromCleanWithoutClone(c) ==
    /\ ModStep(c, "execute")
    /\ InState(c, c.pre, "CLEAN")
    /\ NoCloneAt(c, c.pre)

(***************************************************************************)
(* C8: execute() of a file-modification rule whose target is CLEAN with no *)
(* clone registered leaves the target BUILT, with a clone registered and a *)
(* hash recorded for it; a clean() of the node that follows leaves the     *)
(* modified file with the content it had before execute(), and no clone    *)
(* registered for the file.                                                *)
(***************************************************************************)
C8_ExecuteThenCleanRoundTrip ==
    /\ FromCleanWithoutClone(last) =>
           /\ last.err = "none"
           /\ InState(last, last.post, "BUILT")
           /\ ~NoCloneAt(last, last.post)
           /\ path_exists(last.post, ClonePathsAt(last.post)[FileOf(last)])
           /\ get_id(last.target) \in DOMAIN HashesAt(last.post)
    /\ (FromCleanWithoutClone(prev) /\ ModStep(last, "node_clean")
            /\ last.target = prev.target) =>
           /\ last.err = "none"
           /\ read(last.post, FileOf(last)) = read(prev.pre, FileOf(last))
           /\ NoCloneAt(last, last.post)

\* An execute() from CLEAN without a clone that changed the file, and the
\* clean() after it that brought the content back.
C8_Witness ==
    /\ FromCleanWithoutClone(prev) /\ ModStep(last, "node_clean")
    /\ last.target = prev.target
    /\ read(prev.post, FileOf(prev)) # read(prev.pre, FileOf(prev))
    /\ read(last.post, FileOf(last)) = read(prev.pre, FileOf(last))
    /\ NoCloneAt(last, last.post)

(***************************************************************************)
(* C9: execute() of a modify rule whose target is BUILT changes nothing:   *)
(* no file (the modified file and the clone included), not the clone       *)
(* registry, not the recorded hashes; so an execute() directly after a     *)
(* successful execute() applies no modification.                           *)
(***************************************************************************)
C9_ExecuteWhenBuiltIsNoOp ==
    /\ (ModStep(last, "execute") /\ InState(last, last.pre, "BUILT")) =>
           /\ last.err = "none"
           /\ last.post.fs = last.pre.fs
           /\ ClonePathsAt(last.post) = ClonePathsAt(last.pre)
           /\ HashesAt(last.post) = HashesAt(last.pre)
           /\ last.post.dbfile = last.pre.dbfile
           /\ Modifications(last) = 0
    /\ (ModStep(last, "execute") /\ ModStep(prev, "execute")
            /\ last.target = prev.target /\ prev.err = "none") =>
           /\ InState(last, last.pre, "BUILT")
           /\ Modifications(last) = 0
           /\ read(last.post, FileOf(last)) = read(prev.post, FileOf(last))

\* Two calls of execute() in a row, the first of which applied the
\* modification, with the clone in place.
C9_Witness ==
    /\ ModStep(last, "execute") /\ ModStep(prev, "execute")
    /\ last.target = prev.target
    /\ Modifications(prev) = 1 /\ Modifications(last) = 0
    /\ read(prev.post, FileOf(prev)) # read(prev.pre, FileOf(prev))
    /\ InState(last, last.pre, "BUILT")
    /\ ~NoCloneAt(last, last.post)

(***************************************************************************)
(* C10: clean() of a modification node with no clone registered for the    *)
(* modified file raises no error and changes no file and no mapping of the *)
(* database; this is the case of a second clean() directly after a first.  *)
(***************************************************************************)
C10_CleanWithoutCloneIsNoOp ==
    /\ (ModStep(last, "node_clean") /\ NoCloneAt(last, last.pre)) =>
           /\ last.err = "none"
           /\ last.post.fs = last.pre.fs
           /\ ClonePathsAt(last.post) = ClonePathsAt(last.pre)
           /\ HashesAt(last.post) = HashesAt(last.pre)
           /\ last.post.dbfile = last.pre.dbfile
    /\ (ModStep(last, "node_clean") /\ ModStep(prev, "node_clean")
            /\ FileOf(last) = FileOf(prev) /\ prev.err = "none") =>
           /\ NoCloneAt(last, last.pre)
           /\ last.err = "none"
           /\ last.post.fs = last.pre.fs

\* A clean() that moved a clone back, and a second clean() right after it.
C10_Witness ==
    /\ ModStep(last, "node_clean") /\ ModStep(prev, "node_clean")
    /\ FileOf(last) = FileOf(prev)
    /\ ~NoCloneAt(prev, prev.pre)
    /\ prev.post.fs # prev.pre.fs
    /\ last.err = "none" /\ last.post.fs = last.pre.fs

(***************************************************************************)
(* The files that modification nodes of the graph modify, and the content  *)
(* they had before anything was built.                                     *)
(***************************************************************************)
ModifiedFiles(b) ==
    {b.nodes[i].modified_file.path :
         i \in {j \in 1..Len(b.nodes) : IsModNode(b.nodes[j])}}
OriginalContent(p) == InitialFiles[p].content

(***************************************************************************)
(* C11: after any sequence of build(), clean() and process restarts, a     *)
(* final clean(None) that ends without error leaves every file that a      *)
(* modification node modifies with its original content.                   *)
(***************************************************************************)
C11_FinalCleanRestoresOriginal ==
    (last.op = "clean" /\ IsNone(last.target) /\ last.err = "none") =>
        \A p \in ModifiedFiles(bs) : read(last.post, p) = OriginalContent(p)

(***************************************************************************)
(* What a build step executed.                                             *)
(***************************************************************************)
Executed(c) == {id \in DOMAIN bs.rules : Occurs(c.events, <<"execute", id>>)}
ExecutedOnce(c, ids) ==
    \A id \in DOMAIN bs.rules :
        Count(c.events, <<"execute", id>>) = IF id \in ids THEN 1 ELSE 0
DependenciesExecutedFirst(c) ==
    \A a \in Executed(c) : \A d \in Executed(c) \cap DepIds(bs, a) :
        Before(c.events, <<"execute", d>>, <<"execute", a>>)
AllUpToDate(m) ==
    \A id \in DOMAIN bs.rules : is_up_to_date(bs.rules[id], m).v
BuildOf(c, target) ==
    c.op = "build" /\ c.target = target /\ c.pre.fail = {} /\ c.err = "none"
DependsOn(id, src) == src \in Reach(bs, {id})

(***************************************************************************)
(* C12: in a graph of created files whose commands succeed, build(prog)    *)
(* with no output present executes every rule once, a dependency before    *)
(* its dependent; and when a static source is touched, in the claim's      *)
(* graph, where every target depends on the source, or in any graph in     *)
(* which everything was up to date, the next build(prog) executes exactly  *)
(* the rules whose targets depend on that source, once each, a dependency  *)
(* before its dependent.                                                   *)
(***************************************************************************)
AllDependOn(src) == \A id \in DOMAIN bs.rules : DependsOn(id, src)

C12_RebuildsExactlyWhatDependsOnTheSource ==
    /\ (BuildOf(last, P) /\ DOMAIN last.pre.fs = DOMAIN SourceFiles) =>
           /\ ExecutedOnce(last, DOMAIN bs.rules)
           /\ DependenciesExecutedFirst(last)
    /\ (/\ BuildOf(last, P) /\ prev.op = "touch"
        /\ AllUpToDate(prev.pre) \/ AllDependOn(get_id(prev.target))) =>
           /\ ExecutedOnce(last, {id \in DOMAIN bs.rules :
                                      DependsOn(id, get_id(prev.target))})
           /\ DependenciesExecutedFirst(last)

\* Everything was built, the source x was touched, and build(p) executed o
\* and then p but not q, which is made from the other source.
C12_Witness ==
    /\ BuildOf(last, P) /\ prev.op = "touch" /\ AllUpToDate(prev.pre)
    /\ prev.target = X
    /\ Executed(last) = {"o", "p"}
    /\ "q" \in DOMAIN bs.rules
    /\ Before(last.events, <<"execute", "o">>, <<"execute", "p">>)

(***************************************************************************)
(* C13: when the command of a ShellRule exits non-zero during build(), the *)
(* build ends there with an error: the failed execution is the last thing  *)
(* the call does, it is made once, and every target executed earlier in    *)
(* the call still has its timestamp.                                       *)
(***************************************************************************)
\* The state a call leaves behind, as the next call finds it.
LeftBehind(c) == [c.post EXCEPT !.err = "none"]

FailedShellRules(c) ==
    {id \in c.pre.fail \cap DOMAIN bs.rules :
         /\ bs.rules[id].cls = "ShellRule"
         /\ Occurs(c.events, <<"execute", id>>)}

\* The targets a call produced: the ShellRule targets whose command ran and
\* succeeded, and the modifications whose command was run.
Produced(c) ==
    {id \in Executed(c) :
         IF bs.rules[id].cls = "ShellRule" THEN id \notin c.pre.fail
         ELSE Occurs(c.events, <<"modification", id>>)}

C13_FailedCommandStopsTheBuild ==
    last.op = "build" =>
        \A f \in FailedShellRules(last) :
            /\ last.err = "CommandFailed"
            /\ last.events[Len(last.events)] = <<"execute", f>>
            /\ Count(last.events, <<"execute", f>>) = 1
            /\ \A id \in Produced(last) :
                   get_time(bs.rules[id].target, LeftBehind(last)).v # NoTime

\* A build that executed two rules and then failed at a third.
C13_Witness ==
    /\ last.op = "build" /\ last.err = "CommandFailed"
    /\ FailedShellRules(last) # {}
    /\ Cardinality(Produced(last)) = 2
    /\ \E n \in ModTargets(bs) : get_id(n) \in Produced(last)

(***************************************************************************)
(* C14: in a traversal, the preorder action of a node comes before the     *)
(* preorder action of each of its dependencies, for every list of starting *)
(* nodes; so dag() prints a dependency after the node that depends on it,  *)
(* and indented deeper.                                                    *)
(***************************************************************************)
Line(c, id) == CHOOSE i \in 1..Len(c.out) : c.out[i].id = id

C14_PreorderBeforeDependencies ==
    (last.op \in {"traverse_dag", "dag"} /\ last.err = "none"
         /\ Acyclic(bs) /\ RulesComplete(bs)) =>
        \A a \in last.traversed : \A d \in DepIds(bs, a) :
            /\ Before(last.events, <<"pre", a>>, <<"pre", d>>)
            /\ last.op = "dag" =>
                   /\ Line(last, a) < Line(last, d)
                   /\ last.out[Line(last, a)].depth < last.out[Line(last, d)].depth

(***************************************************************************)
(* The nodes of a rule list in the order __init__ meets them: for each     *)
(* rule its target, then its dependencies.                                 *)
(***************************************************************************)
RECURSIVE InOrder(_)
InOrder(rules) ==
    IF rules = <<>> THEN <<>>
    ELSE <<Head(rules).target>> \o Head(rules).depends_on \o InOrder(Tail(rules))

FirstWithId(q, id) == q[CHOOSE i \in 1..Len(q) :
                            /\ get_id(q[i]) = id
                            /\ \A j \in 1..(i - 1) : get_id(q[j]) # id]

RulesFor(rules, id) == {i \in 1..Len(rules) : get_id(rules[i].target) = id}
HasDuplicateTarget(rules) ==
    \E i, j \in 1..Len(rules) :
        i # j /\ get_id(rules[i].target) = get_id(rules[j].target)

(***************************************************************************)
(* C15: construction fails when two rules have the same target id; a       *)
(* BuildSystem constructed with verification has exactly one rule for each *)
(* target id, one node for each id (the first in the order target, then    *)
(* dependencies, rule after rule), every static node of its node set       *)
(* exists, and every dynamic node of its node set has a rule.              *)
(***************************************************************************)
C15_ConstructionInvariants ==
    /\ (bs.made /\ HasDuplicateTarget(rules_in)) => bs.error = "DuplicateTarget"
    /\ (bs.made /\ ~bs.skip_verification /\ bs.error = "none") =>
           /\ DOMAIN bs.rules = {get_id(rules_in[i].target) : i \in 1..Len(rules_in)}
           /\ \A id \in DOMAIN bs.rules :
                  /\ Cardinality(RulesFor(rules_in, id)) = 1
                  /\ \A i \in RulesFor(rules_in, id) : bs.rules[id] = rules_in[i]
           /\ NodeIds(bs.nodes) = NodeIds(InOrder(rules_in))
           /\ \A i, j \in 1..Len(bs.nodes) :
                  i # j => get_id(bs.nodes[i]) # get_id(bs.nodes[j])
           /\ \A i \in 1..Len(bs.nodes) :
                  /\ bs.nodes[i] = FirstWithId(InOrder(rules_in), get_id(bs.nodes[i]))
                  /\ IsStaticNode(bs.nodes[i]) => bs.nodes[i].path \in DOMAIN fs
                  /\ IsDynamicNode(bs.nodes[i]) =>
                         get_id(bs.nodes[i]) \in DOMAIN bs.rules

\* A verified BuildSystem of three rules in which the id "o" is met first
\* as a static node and later as the created target of a rule.
C15_Witness ==
    /\ bs.made /\ ~bs.skip_verification /\ bs.error = "none"
    /\ Len(rules_in) = 3
    /\ \E i \in 1..Len(bs.nodes) : bs.nodes[i] = StaticO
    /\ "o" \in DOMAIN bs.rules

(***************************************************************************)
(* C16: _get_build_state returns BUILT iff a hash is recorded for the      *)
(* modification and equals the hash of the file's content; otherwise CLEAN *)
(* iff no clone is registered for the file or the file's content equals    *)
(* the clone's; otherwise DIRTY.  So a modification without a recorded     *)
(* hash whose file differs from the registered clone is DIRTY.             *)
(***************************************************************************)
StateByHashThenClone(n, m) ==
    IF /\ get_id(n) \in DOMAIN HashesAt(m)
       /\ HashesAt(m)[get_id(n)] = get_md5sum(m, n.modified_file.path)
    THEN "BUILT"
    ELSE IF \/ n.modified_file.path \notin DOMAIN ClonePathsAt(m)
            \/ read(m, ClonePathsAt(m)[n.modified_file.path])
                   = read(m, n.modified_file.path)
    THEN "CLEAN"
    ELSE "DIRTY"

C16_StateByHashThenClone ==
    \A n \in ModTargets(bs) :
        ~Raised(_get_build_state(bs.rules[get_id(n)], Machine({})).m) =>
            _get_build_state(bs.rules[get_id(n)], Machine({})).v
                = StateByHashThenClone(n, Machine({}))

(***************************************************************************)
(* C17: execute() of a modify rule whose target is DIRTY cleans the target *)
(* and then modifies it: the call raises nothing (the assertion of the     *)
(* CLEAN state in _do_modification holds), the modification is applied     *)
(* once, to the content the clone held, and the target ends BUILT with the *)
(* clone registered and holding that content.                              *)
(***************************************************************************)
CloneContentAt(c, m) == read(m, ClonePathsAt(m)[FileOf(c)])

C17_DirtyIsCleanedThenBuilt ==
    (ModStep(last, "execute") /\ InState(last, last.pre, "DIRTY")) =>
        /\ last.err = "none"
        /\ Modifications(last) = 1
        /\ InState(last, last.post, "BUILT")
        /\ ~NoCloneAt(last, last.post)
        /\ CloneContentAt(last, last.post) = CloneContentAt(last, last.pre)
        /\ last.pre.fail = {} =>
               read(last.post, FileOf(last))
                   = Append(CloneContentAt(last, last.pre),
                            last.target.modification_key)

(***************************************************************************)
(* C18: in every state reached by execute(), clean() of a node, build(),   *)
(* clean() and process restarts, the clone registered for a modified file  *)
(* holds the file's original content, the content from before any          *)
(* modification.  (The registry holds one clone path for a file id.)       *)
(***************************************************************************)
C18_CloneIsPristine ==
    \A p \in ModifiedFiles(bs) \cap DOMAIN ClonePathsAt(Machine({})) :
        /\ path_exists(Machine({}), ClonePathsAt(Machine({}))[p])
        /\ read(Machine({}), ClonePathsAt(Machine({}))[p]) = OriginalContent(p)

(***************************************************************************)
(* C19: when a process ends, what the next process loads as its database   *)
(* holds the in-memory database of the process that ended.  Stated for the *)
(* records in use at the end of the process: every registered clone path,  *)
(* and the recorded hash of every modification of a file whose clone is    *)
(* registered, also when they were recorded by a build() that follows a    *)
(* clean() in the same process.                                            *)
(***************************************************************************)
HashesInUse(b, data) ==
    {id \in DOMAIN data.modified_hashes :
         \E n \in ModTargets(b) :
             get_id(n) = id /\ n.modified_file.path \in DOMAIN data.clone_paths}

C19_ExitPersistsTheDatabase ==
    (last.op = "exit" /\ ~last.pre.DATABASE.is_none) =>
        /\ get_db(last.post).DATABASE.data.clone_paths
               = last.pre.DATABASE.data.clone_paths
        /\ \A id \in HashesInUse(bs, last.pre.DATABASE.data) :
               /\ id \in DOMAIN get_db(last.post).DATABASE.data.modified_hashes
               /\ get_db(last.post).DATABASE.data.modified_hashes[id]
                      = last.pre.DATABASE.data.modified_hashes[id]

(***************************************************************************)
(* C20: clean(target) with a target cleans the dynamic nodes reachable     *)
(* from the target only, and discards only their database records: for a   *)
(* modification node outside that scope, the file, the clone path and the  *)
(* recorded hash are as before the call, in the process and in what the    *)
(* next process loads after the process has ended.                         *)
(***************************************************************************)
OutOfScope(c) ==
    {n \in ModTargets(bs) : get_id(n) \notin Reach(bs, {get_id(c.target)})}
RecordsOf(n, m) ==
    [clone |-> IF n.modified_file.path \in DOMAIN ClonePathsAt(m)
               THEN ClonePathsAt(m)[n.modified_file.path] ELSE None,
     hash |-> IF get_id(n) \in DOMAIN HashesAt(m)
              THEN HashesAt(m)[get_id(n)] ELSE <<>>]
TargetedClean(c) == c.op = "clean" /\ ~IsNone(c.target) /\ c.err = "none"

C20_CleanDiscardsOnlyItsScope ==
    /\ TargetedClean(last) =>
           \A n \in OutOfScope(last) :
               /\ RecordsOf(n, last.post) = RecordsOf(n, last.pre)
               /\ read(last.post, n.modified_file.path)
                      = read(last.pre, n.modified_file.path)
    /\ (TargetedClean(prev) /\ last.op = "exit") =>
           \A n \in OutOfScope(prev) :
               RecordsOf(n, last.post) = RecordsOf(n, prev.pre)

(***************************************************************************)
(* C21: when two modification nodes with different keys modify the same    *)
(* file and both have rules, a build(None) that starts in the fully clean  *)
(* state (no clone registered, no hash recorded) and ends without error    *)
(* executes the modify rules of both and leaves both in state BUILT.       *)
(***************************************************************************)
SharingModifications(b) ==
    {pair \in ModTargets(b) \X ModTargets(b) :
         /\ pair[1].modified_file.path = pair[2].modified_file.path
         /\ pair[1].modification_key # pair[2].modification_key}
FullyClean(m) ==
    /\ DOMAIN ClonePathsAt(m) = {}
    /\ DOMAIN HashesAt(m) = {}
    /\ \A p \in ModifiedFiles(bs) : read(m, p) = OriginalContent(p)
BuiltAt(n, m) ==
    /\ ~Raised(_get_build_state(bs.rules[get_id(n)], m).m)
    /\ _get_build_state(bs.rules[get_id(n)], m).v = "BUILT"

C21_BothModificationsAreBuilt ==
    (BuildOf(last, NoneNode) /\ FullyClean(last.pre)) =>
        \A pair \in SharingModifications(bs) :
            /\ get_id(pair[1]) \in Executed(last)
            /\ get_id(pair[2]) \in Executed(last)
            /\ BuiltAt(pair[1], last.post)
            /\ BuiltAt(pair[2], last.post)

====
